---------------------------- MODULE Spec2Model ----------------------------
(***************************************************************************)
(* Model of BasisFactorization (src/BasisFactorization.cpp): the basis     *)
(* B = B0 * E1 * ... * En of a revised-simplex solver, kept as a reference *)
(* matrix B0, an LP/U factorization of B0 and a stack of eta matrices.     *)
(*                                                                         *)
(* Numbers are exact rationals <<numerator, denominator>> in lowest terms  *)
(* with a positive denominator.  Vectors are functions on 0..m-1 and       *)
(* matrices are row-major functions on 0..m*m-1, indexed as in the source  *)
(* (M[i*m + j]).                                                           *)
(***************************************************************************)
EXTENDS Integers, Sequences, FiniteSets

(***************************************************************************)
(* Dimension of the engines (constructor argument) and model bounds.       *)
(***************************************************************************)
m == 3

\* GlobalConfiguration::REFACTORIZATION_THRESHOLD.  The configured value is
\* not part of this file; the model runs with a small one.
REFACTORIZATION_THRESHOLD == 1

\* Total number of pushEtaMatrix calls the driver makes in a run.
MaxPushes == REFACTORIZATION_THRESHOLD + 2

\* Longest eta stack the driver builds (reached with factorization disabled).
MaxEtas == REFACTORIZATION_THRESHOLD + 2

\* 1 / epsilon of FloatUtils (epsilon = 10^-9).
EPSILON_INV == 1000000000

Idx == 0 .. (m - 1)
MIdx == 0 .. (m * m - 1)

(***************************************************************************)
(* double arithmetic, as exact rationals                                   *)
(***************************************************************************)
IAbs(a) == IF a < 0 THEN -a ELSE a

RECURSIVE Gcd(_, _)
Gcd(a, b) == IF b = 0 THEN a ELSE Gcd(b, a % b)

Norm(n, d) ==
    IF n = 0 THEN <<0, 1>>
    ELSE LET s == IF d < 0 THEN -1 ELSE 1
             g == Gcd(IAbs(n), IAbs(d))
         IN  <<(s * n) \div g, (s * d) \div g>>

Rat(n) == <<n, 1>>
Zero == Rat(0)
One == Rat(1)

Add(a, b) == Norm(a[1] * b[2] + b[1] * a[2], a[2] * b[2])
Neg(a) == <<-a[1], a[2]>>
Sub(a, b) == Add(a, Neg(b))
Mul(a, b) == Norm(a[1] * b[1], a[2] * b[2])
\* Division by a non-zero double.
Div(a, b) == Norm(a[1] * b[2], a[2] * b[1])

\* FloatUtils::abs
Abs(a) == <<IAbs(a[1]), a[2]>>

\* FloatUtils::isZero: |a| < epsilon, i.e. |n| * EPSILON_INV < d.
isZero(a) == IAbs(a[1]) <= (a[2] - 1) \div EPSILON_INV

\* FloatUtils::gt: a exceeds b by more than the tolerance.
gt(a, b) == LET diff == Sub(a, b) IN diff[1] > 0 /\ ~isZero(diff)

\* The idiom "if ( FloatUtils::isZero( v ) ) v = 0.0;".
Snap(a) == IF isZero(a) THEN Zero ELSE a

\* sum += f[i] for i = lo .. hi (empty when lo > hi)
RECURSIVE SumOver(_, _, _)
SumOver(f, lo, hi) == IF lo > hi THEN Zero ELSE Add(SumOver(f, lo, hi - 1), f[hi])

ZeroVector == [i \in Idx |-> Zero]
ZeroMatrix == [p \in MIdx |-> Zero]
IdentityMatrix == [p \in MIdx |-> IF (p \div m) = (p % m) THEN One ELSE Zero]

(***************************************************************************)
(* EtaMatrix and LPElement                                                 *)
(***************************************************************************)
EtaMatrix(columnIndex, column) == [columnIndex |-> columnIndex, column |-> column]

NoEta == EtaMatrix(0, ZeroVector)
NoPair == <<0, 0>>

\* LPElement( eta, pair ): exactly one of the two is set.
LPElement(isPair, eta, pair) == [isPair |-> isPair, eta |-> eta, pair |-> pair]

\* List::appendHead
appendHead(list, element) == <<element>> \o list


(***************************************************************************)
(* A BasisFactorization object is the record of its fields                 *)
(*   [B0, U, LP, etas, factorizationEnabled].                              *)
(* _LP and _etas are sequences whose first element is the list's head.     *)
(* An operation that can throw returns [eng |-> ..., error |-> ...], the   *)
(* object as it stands when the exception leaves the call.                 *)
(***************************************************************************)
NoError == "none"
NO_AVAILABLE_CANDIDATES == "NoPivot"
CANT_INVERT_BASIS_BECAUSE_OF_ETAS == "EtasPresent"

\* BasisFactorization::BasisFactorization: B0 = I, empty lists, factorization
\* enabled; _U is allocated and not initialised (garbage stands for it).
NewBasisFactorization(garbage) ==
    [B0 |-> IdentityMatrix, U |-> garbage, LP |-> <<>>, etas |-> <<>>,
     factorizationEnabled |-> TRUE]

\* X[L->_columnIndex] = sum_i L->_column[i] * X[i]
LMultiplyRight(L, X) ==
    LET sum == SumOver([i \in Idx |-> Mul(L.column[i], X[i])], 0, m - 1)
    IN  [X EXCEPT ![L.columnIndex] = Snap(sum)]

\* X[col] *= column[col]; X[i] += xCol * column[i] for the other rows.
LMultiplyLeft(L, X) ==
    LET col == L.columnIndex
        xCol == X[col]
    IN  [i \in Idx |-> Snap(IF i = col THEN Mul(X[i], L.column[col])
                                       ELSE Add(X[i], Mul(xCol, L.column[i])))]

\* Swap rows rowOne and rowTwo of a matrix.
rowSwap(rowOne, rowTwo, matrix) ==
    [p \in MIdx |->
        IF (p \div m) = rowOne THEN matrix[rowTwo * m + (p % m)]
        ELSE IF (p \div m) = rowTwo THEN matrix[rowOne * m + (p % m)]
        ELSE matrix[p]]

\* result = left * right
matrixMultiply(left, right) ==
    [p \in MIdx |->
        LET leftRow == p \div m
            rightCol == p % m
        IN  SumOver([i \in Idx |-> Mul(left[leftRow * m + i], right[i * m + rightCol])],
                    0, m - 1)]

\* Delete the LP elements and zero U.
clearLPU(e) == [e EXCEPT !.LP = <<>>, !.U = ZeroMatrix]

\* One iteration of the loop of condenseEtas: column col of B0 becomes the
\* combination of the columns of B0 weighted by the eta column.
condenseEta(B, eta) ==
    LET col == eta.columnIndex
    IN  [p \in MIdx |->
            IF (p % m) = col
            THEN LET i == p \div m
                 IN  Snap(SumOver([j \in Idx |-> Mul(B[i * m + j], eta.column[j])], 0, m - 1))
            ELSE B[p]]

\* The loop of condenseEtas run newest eta first.
RECURSIVE condenseLoop_NewestFirst(_, _)
condenseLoop_NewestFirst(B, list) ==
    IF list = <<>> THEN B
    ELSE condenseLoop_NewestFirst(condenseEta(B, list[Len(list)]),
                                  SubSeq(list, 1, Len(list) - 1))

\* The loop "for ( const auto &eta : _etas )": oldest eta first.
RECURSIVE condenseLoop(_, _)
condenseLoop(B, list) ==
    IF list = <<>> THEN B ELSE condenseLoop(condenseEta(B, Head(list)), Tail(list))

condenseEtas(e) ==
    clearLPU([e EXCEPT !.B0 = condenseLoop(e.B0, e.etas), !.etas = <<>>])

\* The in-place elimination step of factorizeMatrix on U.
LFactorizationMultiply(L, Um) ==
    LET colIndex == L.columnIndex
    IN  [p \in MIdx |->
            LET row == p \div m
                col == p % m
            IN  IF row > colIndex
                THEN IF col = colIndex THEN Zero
                     ELSE IF col > colIndex
                          THEN Add(Um[p], Mul(L.column[row], Um[colIndex * m + col]))
                          ELSE Um[p]
                ELSE IF row = colIndex
                     THEN IF col > colIndex THEN Mul(Um[p], L.column[colIndex])
                          ELSE IF col = colIndex THEN One
                          ELSE Um[p]
                     ELSE Um[p]]

\* Partial pivoting: rows j .. m-1 of column i against the best so far.
RECURSIVE findPivot(_, _, _, _, _)
findPivot(Um, i, j, largestElement, bestRowIndex) ==
    IF j >= m THEN [largestElement |-> largestElement, bestRowIndex |-> bestRowIndex]
    ELSE LET contender == Abs(Um[j * m + i])
         IN  IF gt(contender, largestElement)
             THEN findPivot(Um, i, j + 1, contender, j)
             ELSE findPivot(Um, i, j + 1, largestElement, bestRowIndex)

\* _LCol read along the pivot row (_U[i * _m + j]) instead of down the column.
buildLCol_RowIndexed(Um, i) ==
    LET div == Um[i * m + i]
    IN  [j \in Idx |-> IF j < i THEN Zero
                       ELSE IF j = i THEN Div(One, div)
                       ELSE Div(Neg(Um[i * m + j]), div)]

\* _LCol for stage i: 1/div at the pivot, -U[j][i]/div below it, 0 above.
buildLCol(Um, i) ==
    LET div == Um[i * m + i]
    IN  [j \in Idx |-> IF j < i THEN Zero
                       ELSE IF j = i THEN Div(One, div)
                       ELSE Div(Neg(Um[i + j * m]), div)]

\* Stages i .. m-1 of factorizeMatrix.  ok = FALSE: "No Pivot" was thrown,
\* with U and LP as the earlier stages left them.
RECURSIVE factorizeFrom(_, _, _)
factorizeFrom(i, Um, LPl) ==
    IF i >= m THEN [U |-> Um, LP |-> LPl, ok |-> TRUE]
    ELSE LET best == findPivot(Um, i, i + 1, Abs(Um[i * m + i]), i)
         IN  IF isZero(best.largestElement)
             THEN [U |-> Um, LP |-> LPl, ok |-> FALSE]
             ELSE LET swap == best.bestRowIndex # i
                      U1 == IF swap THEN rowSwap(i, best.bestRowIndex, Um) ELSE Um
                      LP1 == IF swap
                             THEN appendHead(LPl, LPElement(TRUE, NoEta, <<i, best.bestRowIndex>>))
                             ELSE LPl
                      L == EtaMatrix(i, buildLCol(U1, i))
                      LP2 == appendHead(LP1, LPElement(FALSE, L, NoPair))
                  IN  factorizeFrom(i + 1, LFactorizationMultiply(L, U1), LP2)

factorizeMatrix(e, matrix) ==
    LET f == factorizeFrom(0, matrix, <<>>)
    IN  [eng |-> [e EXCEPT !.U = f.U, !.LP = f.LP],
         error |-> IF f.ok THEN NoError ELSE NO_AVAILABLE_CANDIDATES]

setB0(e, matrix) ==
    LET copied == [e EXCEPT !.B0 = matrix]
    IN  factorizeMatrix(copied, copied.B0)

\* pushEtaMatrix refactoring one eta early (>= for >).
pushEtaMatrix_AtThreshold(e, columnIndex, column) ==
    LET appended == [e EXCEPT !.etas = Append(e.etas, EtaMatrix(columnIndex, column))]
    IN  IF Len(appended.etas) >= REFACTORIZATION_THRESHOLD /\ appended.factorizationEnabled
        THEN LET condensed == condenseEtas(appended)
             IN  factorizeMatrix(condensed, condensed.B0)
        ELSE [eng |-> appended, error |-> NoError]

\* pushEtaMatrix not consulting _factorizationEnabled.
pushEtaMatrix_IgnoresFlag(e, columnIndex, column) ==
    LET appended == [e EXCEPT !.etas = Append(e.etas, EtaMatrix(columnIndex, column))]
    IN  IF Len(appended.etas) > REFACTORIZATION_THRESHOLD
        THEN LET condensed == condenseEtas(appended)
             IN  factorizeMatrix(condensed, condensed.B0)
        ELSE [eng |-> appended, error |-> NoError]

pushEtaMatrix(e, columnIndex, column) ==
    LET appended == [e EXCEPT !.etas = Append(e.etas, EtaMatrix(columnIndex, column))]
    IN  IF Len(appended.etas) > REFACTORIZATION_THRESHOLD /\ appended.factorizationEnabled
        THEN LET condensed == condenseEtas(appended)
             IN  factorizeMatrix(condensed, condensed.B0)
        ELSE [eng |-> appended, error |-> NoError]

toggleFactorization(e, value) == [e EXCEPT !.factorizationEnabled = value]

factorizationEnabled(e) == e.factorizationEnabled

(***************************************************************************)
(* Forward transformation: solve B x = y.                                  *)
(***************************************************************************)
\* Swap two entries of a vector.
swapEntries(X, first, second) ==
    [i \in Idx |-> IF i = first THEN X[second] ELSE IF i = second THEN X[first] ELSE X[i]]

\* "for ( element = _LP.rbegin(); ... )": elements n, n-1, ..., 1 act on _tempY.
RECURSIVE forwardLP(_, _, _)
forwardLP(LPl, n, tempY) ==
    IF n = 0 THEN tempY
    ELSE LET element == LPl[n]
         IN  forwardLP(LPl, n - 1,
                       IF element.isPair
                       THEN swapEntries(tempY, element.pair[1], element.pair[2])
                       ELSE LMultiplyLeft(element.eta, tempY))

\* Back substitution with U for rows i, i-1, ..., 0; x holds rows i+1 .. m-1.
RECURSIVE forwardU(_, _, _, _)
forwardU(Um, tempY, i, x) ==
    IF i < 0 THEN x
    ELSE LET sum == SumOver([j \in Idx |-> IF j > i THEN Mul(Um[i * m + j], x[j]) ELSE Zero],
                            i + 1, m - 1)
         IN  forwardU(Um, tempY, i - 1, [x EXCEPT ![i] = Snap(Sub(tempY[i], sum))])

\* Solve E z = tempY for one eta E.
forwardEta(eta, tempY) ==
    LET k == eta.columnIndex
        xk == Snap(Div(tempY[k], eta.column[k]))
    IN  [i \in Idx |-> IF i = k THEN xk ELSE Snap(Sub(tempY[i], Mul(xk, eta.column[i])))]

\* The eta loop of forwardTransformation run newest eta first.
RECURSIVE forwardEtas_NewestFirst(_, _)
forwardEtas_NewestFirst(list, tempY) ==
    IF list = <<>> THEN tempY
    ELSE forwardEtas_NewestFirst(SubSeq(list, 1, Len(list) - 1),
                                 forwardEta(list[Len(list)], tempY))

\* "for ( const auto &eta : _etas )": oldest eta first.
RECURSIVE forwardEtas(_, _)
forwardEtas(list, tempY) ==
    IF list = <<>> THEN tempY ELSE forwardEtas(Tail(list), forwardEta(Head(list), tempY))

forwardTransformation(e, y) ==
    IF e.etas = <<>> /\ e.LP = <<>> THEN y
    ELSE LET t1 == forwardLP(e.LP, Len(e.LP), y)
             t2 == IF e.LP # <<>>
                   THEN forwardU(e.U, t1, m - 2, [ZeroVector EXCEPT ![m - 1] = t1[m - 1]])
                   ELSE t1
         IN  forwardEtas(e.etas, t2)

(***************************************************************************)
(* Backward transformation: solve x B = y.                                 *)
(***************************************************************************)
\* Solve w E = tempY for one eta E: only entry columnIndex differs from tempY.
backwardEta(eta, tempY) ==
    LET k == eta.columnIndex
        sum == SumOver([i \in Idx |-> IF i # k THEN Mul(tempY[i], eta.column[i]) ELSE Zero],
                       0, m - 1)
    IN  [tempY EXCEPT ![k] = Snap(Div(Sub(tempY[k], sum), eta.column[k]))]

\* "for ( eta = _etas.rbegin(); ... )": newest eta first.
RECURSIVE backwardEtas(_, _, _)
backwardEtas(list, n, tempY) ==
    IF n = 0 THEN tempY ELSE backwardEtas(list, n - 1, backwardEta(list[n], tempY))

\* Forward substitution x' U = tempY for columns i .. m-1; x holds 0 .. i-1.
RECURSIVE backwardU(_, _, _, _)
backwardU(Um, tempY, i, x) ==
    IF i >= m THEN x
    ELSE LET sum == SumOver([j \in Idx |-> IF j < i THEN Mul(Um[i + j * m], x[j]) ELSE Zero],
                            0, i - 1)
         IN  backwardU(Um, tempY, i + 1, [x EXCEPT ![i] = Snap(Sub(tempY[i], sum))])

\* "for ( const auto *d : _LP )": head of the list first.
RECURSIVE backwardLP(_, _)
backwardLP(LPl, x) ==
    IF LPl = <<>> THEN x
    ELSE LET d == Head(LPl)
         IN  backwardLP(Tail(LPl),
                        IF d.isPair THEN swapEntries(x, d.pair[1], d.pair[2])
                                    ELSE LMultiplyRight(d.eta, x))

backwardTransformation(e, y) ==
    IF e.etas = <<>> /\ e.LP = <<>> THEN y
    ELSE LET t1 == backwardEtas(e.etas, Len(e.etas), y)
             x1 == IF e.LP # <<>>
                   THEN backwardU(e.U, t1, 1, [ZeroVector EXCEPT ![0] = t1[0]])
                   ELSE t1
         IN  backwardLP(e.LP, x1)

(***************************************************************************)
(* invertB0                                                                *)
(***************************************************************************)
\* Left-multiplication of result by the eta of an LP element, in place.
invertEta(eta, result) ==
    LET colIndex == eta.columnIndex
    IN  [p \in MIdx |->
            LET row == p \div m
                col == p % m
            IN  IF row > colIndex
                THEN Add(result[p], Mul(eta.column[row], result[colIndex * m + col]))
                ELSE IF row = colIndex THEN Mul(result[p], eta.column[colIndex])
                ELSE result[p]]

\* "for ( it = _LP.rbegin(); ... )": elements n, n-1, ..., 1 act on result.
RECURSIVE invertLP(_, _, _)
invertLP(LPl, n, result) ==
    IF n = 0 THEN result
    ELSE LET element == LPl[n]
         IN  invertLP(LPl, n - 1,
                      IF element.isPair
                      THEN rowSwap(element.pair[1], element.pair[2], result)
                      ELSE invertEta(element.eta, result))

\* The U operations applied to columns 1, 2, ..., col (ascending).
RECURSIVE invertUFrom(_, _, _, _)
invertUFrom(Um, result, c, col) ==
    IF c > col THEN result
    ELSE invertUFrom(Um,
                     [p \in MIdx |->
                         LET row == p \div m
                             k == p % m
                             uElement == Um[row * m + c]
                         IN  IF row < c /\ ~isZero(uElement)
                             THEN Add(result[p], Mul(Neg(uElement), result[c * m + k]))
                             ELSE result[p]],
                     c + 1, col)

invertU_Ascending(Um, result, col) == invertUFrom(Um, result, 1, col)

\* "Apply the U operations": columns col, col-1, ..., 1.
RECURSIVE invertU(_, _, _)
invertU(Um, result, col) ==
    IF col <= 0 THEN result
    ELSE invertU(Um,
                 [p \in MIdx |->
                     LET row == p \div m
                         k == p % m
                         uElement == Um[row * m + col]
                     IN  IF row < col /\ ~isZero(uElement)
                         THEN Add(result[p], Mul(Neg(uElement), result[col * m + k]))
                         ELSE result[p]],
                 col - 1)

\* invertB0 initialising the result before it looks at the eta stack.
invertB0_InitFirst(e, buffer) ==
    IF e.etas # <<>>
    THEN [result |-> IdentityMatrix, error |-> CANT_INVERT_BASIS_BECAUSE_OF_ETAS]
    ELSE IF e.LP = <<>>
         THEN [result |-> IdentityMatrix, error |-> NoError]
         ELSE [result |-> invertU(e.U, invertLP(e.LP, Len(e.LP), IdentityMatrix), m - 1),
               error |-> NoError]

\* buffer: the caller's result buffer as passed in.
invertB0(e, buffer) ==
    IF e.etas # <<>>
    THEN [result |-> buffer, error |-> CANT_INVERT_BASIS_BECAUSE_OF_ETAS]
    ELSE IF e.LP = <<>>
         THEN [result |-> IdentityMatrix, error |-> NoError]
         ELSE [result |-> invertU(e.U, invertLP(e.LP, Len(e.LP), IdentityMatrix), m - 1),
               error |-> NoError]

(***************************************************************************)
(* Checkpoints                                                             *)
(***************************************************************************)
storeFactorization(e, other) ==
    LET condensed == condenseEtas(e)
        f == factorizeMatrix(condensed, condensed.B0)
    IN  IF f.error # NoError
        THEN [self |-> f.eng, other |-> other, error |-> f.error]
        ELSE LET g == setB0(other, f.eng.B0)
             IN  [self |-> f.eng, other |-> g.eng, error |-> g.error]

\* restoreFactorization keeping the local etas.
restoreFactorization_KeepsEtas(e, other) == setB0(clearLPU(e), other.B0)

restoreFactorization(e, other) ==
    LET cleared == clearLPU([e EXCEPT !.etas = <<>>])
    IN  setB0(cleared, other.B0)

(***************************************************************************)
(* The driver: a working engine and a checkpoint engine of dimension m.    *)
(***************************************************************************)
Working == "working"
Checkpoint == "checkpoint"
Engines == {Working, Checkpoint}

\* Matrices the driver hands to setB0.
\* Non-singular, needs row swaps and fractional multipliers.
PivotingMatrix == [p \in MIdx |-> Rat(p + 1 + (IF (p \div m) = (p % m) THEN 1 ELSE 0))]
\* First column all zeros: no pivot at stage 0.
ZeroColumnMatrix == [p \in MIdx |-> IF (p % m) = 0 THEN Zero ELSE Rat((p \div m) + (p % m))]
\* All rows equal: no pivot at stage 1.
OnesMatrix == [p \in MIdx |-> One]
SetB0Inputs == {PivotingMatrix, ZeroColumnMatrix, OnesMatrix}

\* Eta columns the driver pushes, each with a non-zero pivot entry.
EtaInputs ==
    { <<1, [i \in Idx |-> IF i = 0 THEN Rat(1) ELSE IF i = 1 THEN Rat(2) ELSE Zero]>>,
      <<0, [i \in Idx |-> IF i = 0 THEN Rat(-1) ELSE IF i = m - 1 THEN Rat(1) ELSE Zero]>> }

\* Right-hand sides of the solves: (1, 4, 5, ...).
YInputs == { [i \in Idx |-> IF i = 0 THEN Rat(1) ELSE Rat(i + 3)] }

\* What uninitialised _U memory may hold.
GarbageMatrix == [p \in MIdx |-> Rat(p + 7)]

VARIABLES
    basis,      \* basis[e]: the BasisFactorization object e
    pushes,     \* pushEtaMatrix calls made so far
    op,         \* the last operation called
    arg,        \* its arguments
    error,      \* the error it raised, or NoError
    y,          \* the right-hand side of the last solve
    x,          \* the x buffer of the last solve
    result,     \* the result buffer of the last invertB0
    prev        \* the objects as they were before the last operation

vars == <<basis, pushes, op, arg, error, y, x, result, prev>>

\* Arguments of a call: the eta pushed, the matrix given to setB0, the flag
\* given to toggleFactorization (the others at a default when not passed).
NoArg == [eta |-> NoEta, matrix |-> ZeroMatrix, value |-> FALSE]

\* Buffers are fresh (all zeros) at every call.
NoBuffers == y' = ZeroVector /\ x' = ZeroVector /\ result' = ZeroMatrix

Init ==
    /\ \E garbage \in {ZeroMatrix, GarbageMatrix} :
           basis = [e \in Engines |-> NewBasisFactorization(garbage)]
    /\ pushes = 0
    /\ op = "new"
    /\ arg = NoArg
    /\ error = NoError
    /\ y = ZeroVector
    /\ x = ZeroVector
    /\ result = ZeroMatrix
    /\ prev = basis

PushEtaMatrix ==
    \E eta \in EtaInputs :
        /\ pushes < MaxPushes
        /\ Len(basis[Working].etas) < MaxEtas
        /\ \E r \in {pushEtaMatrix(basis[Working], eta[1], eta[2])} :
               /\ basis' = [basis EXCEPT ![Working] = r.eng]
               /\ error' = r.error
        /\ pushes' = pushes + 1
        /\ op' = "pushEtaMatrix"
        /\ arg' = [NoArg EXCEPT !.eta = EtaMatrix(eta[1], eta[2])]
        /\ prev' = basis
        /\ NoBuffers

\* "The eta stack must be empty; caller's responsibility."
SetB0 ==
    \E matrix \in SetB0Inputs :
        /\ basis[Working].etas = <<>>
        /\ \E r \in {setB0(basis[Working], matrix)} :
               /\ basis' = [basis EXCEPT ![Working] = r.eng]
               /\ error' = r.error
        /\ op' = "setB0"
        /\ arg' = [NoArg EXCEPT !.matrix = matrix]
        /\ prev' = basis
        /\ NoBuffers
        /\ UNCHANGED pushes

ToggleFactorization ==
    \E value \in BOOLEAN :
        /\ basis' = [basis EXCEPT ![Working] = toggleFactorization(basis[Working], value)]
        /\ error' = NoError
        /\ op' = "toggleFactorization"
        /\ arg' = [NoArg EXCEPT !.value = value]
        /\ prev' = basis
        /\ NoBuffers
        /\ UNCHANGED pushes

\* ASSERT( other->_etas.size() == 0 ) is the caller's obligation.
StoreFactorization ==
    /\ basis[Checkpoint].etas = <<>>
    /\ \E r \in {storeFactorization(basis[Working], basis[Checkpoint])} :
           /\ basis' = [basis EXCEPT ![Working] = r.self, ![Checkpoint] = r.other]
           /\ error' = r.error
    /\ op' = "storeFactorization"
    /\ arg' = NoArg
    /\ prev' = basis
    /\ NoBuffers
    /\ UNCHANGED pushes

RestoreFactorization ==
    /\ basis[Checkpoint].etas = <<>>
    /\ \E r \in {restoreFactorization(basis[Working], basis[Checkpoint])} :
           /\ basis' = [basis EXCEPT ![Working] = r.eng]
           /\ error' = r.error
    /\ op' = "restoreFactorization"
    /\ arg' = NoArg
    /\ prev' = basis
    /\ NoBuffers
    /\ UNCHANGED pushes

InvertB0 ==
    /\ \E r \in {invertB0(basis[Working], ZeroMatrix)} :
           /\ result' = r.result
           /\ error' = r.error
    /\ op' = "invertB0"
    /\ arg' = NoArg
    /\ prev' = basis
    /\ y' = ZeroVector
    /\ x' = ZeroVector
    /\ UNCHANGED <<basis, pushes>>

ForwardTransformation ==
    \E rhs \in YInputs :
        /\ y' = rhs
        /\ x' = forwardTransformation(basis[Working], rhs)
        /\ error' = NoError
        /\ op' = "forwardTransformation"
        /\ arg' = NoArg
        /\ prev' = basis
        /\ result' = ZeroMatrix
        /\ UNCHANGED <<basis, pushes>>

BackwardTransformation ==
    \E rhs \in YInputs :
        /\ y' = rhs
        /\ x' = backwardTransformation(basis[Working], rhs)
        /\ error' = NoError
        /\ op' = "backwardTransformation"
        /\ arg' = NoArg
        /\ prev' = basis
        /\ result' = ZeroMatrix
        /\ UNCHANGED <<basis, pushes>>

Next ==
    \/ PushEtaMatrix
    \/ SetB0
    \/ ToggleFactorization
    \/ StoreFactorization
    \/ RestoreFactorization
    \/ InvertB0
    \/ ForwardTransformation
    \/ BackwardTransformation

Spec == Init /\ [][Next]_vars

\* The unit-test driver: as Spec's updates, with condenseEtas also called on
\* its own.
CondenseEtas ==
    /\ basis' = [basis EXCEPT ![Working] = condenseEtas(basis[Working])]
    /\ error' = NoError
    /\ op' = "condenseEtas"
    /\ arg' = NoArg
    /\ prev' = basis
    /\ NoBuffers
    /\ UNCHANGED pushes

NextCondense ==
    \/ PushEtaMatrix
    \/ SetB0
    \/ ToggleFactorization
    \/ CondenseEtas

SpecCondense == Init /\ [][NextCondense]_vars

(***************************************************************************)
(* Reference linear algebra the properties are stated with.                *)
(***************************************************************************)
\* The m x m matrix E(k, v): the identity with column k replaced by v.
EtaAsMatrix(eta) ==
    [p \in MIdx |-> IF (p % m) = eta.columnIndex THEN eta.column[p \div m]
                    ELSE IF (p \div m) = (p % m) THEN One ELSE Zero]

\* B * E1 * ... * En for the etas of a list, first to last.
RECURSIVE TimesEtas(_, _)
TimesEtas(B, list) ==
    IF list = <<>> THEN B
    ELSE TimesEtas(matrixMultiply(B, EtaAsMatrix(Head(list))), Tail(list))

\* The implicit basis B0 * E1 * ... * En of an engine.
ImplicitBasis(e) == TimesEtas(e.B0, e.etas)

\* The operator of one LP element as a matrix.
LPAsMatrix(element) ==
    IF element.isPair THEN rowSwap(element.pair[1], element.pair[2], IdentityMatrix)
                      ELSE EtaAsMatrix(element.eta)

\* (head * ... * last) * M for an LP list read front to back.
RECURSIVE ApplyLP(_, _)
ApplyLP(LPl, M) ==
    IF LPl = <<>> THEN M
    ELSE matrixMultiply(LPAsMatrix(Head(LPl)), ApplyLP(Tail(LPl), M))

\* B * x and x * B
MatVec(B, v) == [i \in Idx |-> SumOver([j \in Idx |-> Mul(B[i * m + j], v[j])], 0, m - 1)]
VecMat(v, B) == [j \in Idx |-> SumOver([i \in Idx |-> Mul(v[i], B[i * m + j])], 0, m - 1)]

UnitUpperTriangular(Um) ==
    \A p \in MIdx :
        /\ (p \div m) > (p % m) => Um[p] = Zero
        /\ (p \div m) = (p % m) => Um[p] = One

\* LP and U are a factorization of M.
FactorizationOf(e, M) == UnitUpperTriangular(e.U) /\ ApplyLP(e.LP, M) = e.U

\* The engine's LP/U describe its B0 (an empty LP list standing for B0 = I).
Factorized(e) ==
    IF e.LP = <<>> THEN e.B0 = IdentityMatrix ELSE FactorizationOf(e, e.B0)

W == basis[Working]
PW == prev[Working]

(***************************************************************************)
(* Properties                                                              *)
(***************************************************************************)
\* The eta stack of the call just made, with the pushed eta appended.
Appended == Append(PW.etas, arg.eta)

\* C1: a pushEtaMatrix made with factorization enabled that takes the stack
\* above the threshold and returns normally leaves the stack empty, B0 the
\* condensed product and LP/U a fresh factorization of it; one that stays at
\* or below the threshold appends the eta and leaves B0, LP and U alone.
\* Either way at most REFACTORIZATION_THRESHOLD etas remain.
C1_PushRefactorsAboveThreshold ==
    (op = "pushEtaMatrix" /\ PW.factorizationEnabled) =>
        /\ Len(Appended) > REFACTORIZATION_THRESHOLD /\ error = NoError =>
               /\ W.etas = <<>>
               /\ W.B0 = TimesEtas(PW.B0, Appended)
               /\ W.LP # <<>>
               /\ FactorizationOf(W, W.B0)
        /\ Len(Appended) <= REFACTORIZATION_THRESHOLD =>
               /\ error = NoError
               /\ W.etas = Appended
               /\ W.B0 = PW.B0 /\ W.LP = PW.LP /\ W.U = PW.U
        /\ Len(W.etas) <= REFACTORIZATION_THRESHOLD

C1_Witness ==
    /\ op = "pushEtaMatrix" /\ PW.factorizationEnabled /\ error = NoError
    /\ Len(PW.etas) = REFACTORIZATION_THRESHOLD
    /\ PW.LP # <<>>
    /\ W.etas = <<>>
    /\ W.B0 # PW.B0

\* C2: from a factorized B0 and any pushed etas, forwardTransformation gives
\* x with B x = y and backwardTransformation gives x with x B = y, B being
\* the implicit basis B0 * E1 * ... * En.
C2_SolvesAgainstImplicitBasis ==
    /\ (op = "forwardTransformation" /\ Factorized(W)) => MatVec(ImplicitBasis(W), x) = y
    /\ (op = "backwardTransformation" /\ Factorized(W)) => VecMat(x, ImplicitBasis(W)) = y

C2_Witness ==
    /\ op = "backwardTransformation"
    /\ Factorized(W)
    /\ W.LP # <<>>
    /\ Len(W.etas) >= 2
    /\ W.etas[1] # W.etas[2]
    /\ x # y

\* C3: after factorizeMatrix(M) returns normally, U is upper triangular with
\* unit diagonal and the LP list, read front to back as L_n P_n ... L_1 P_1
\* and applied to M, gives U.  (setB0 and restoreFactorization factorize the
\* matrix they copy into B0; storeFactorization and a refactoring
\* pushEtaMatrix factorize the condensed B0.)
RanFactorize ==
    \/ op \in {"setB0", "storeFactorization", "restoreFactorization"}
    \/ op = "pushEtaMatrix" /\ W.etas = <<>>

C3_FactorizationReproducesU ==
    (RanFactorize /\ error = NoError) =>
        /\ UnitUpperTriangular(W.U)
        /\ ApplyLP(W.LP, W.B0) = W.U
        /\ op = "setB0" => W.B0 = arg.matrix

C3_Witness ==
    /\ op = "setB0" /\ error = NoError
    /\ arg.matrix = PivotingMatrix
    /\ \E i \in 1 .. Len(W.LP) : W.LP[i].isPair
    /\ W.U # IdentityMatrix

\* C4: condenseEtas leaves the eta stack empty, the LP list empty, U all
\* zeros and B0 equal to old-B0 * E1 * ... * En.
C4_CondenseFoldsEtas ==
    op = "condenseEtas" =>
        /\ W.etas = <<>>
        /\ W.LP = <<>>
        /\ W.U = ZeroMatrix
        /\ W.B0 = ImplicitBasis(PW)

C4_Witness ==
    /\ op = "condenseEtas"
    /\ Len(PW.etas) >= 2
    /\ PW.etas[1] # PW.etas[2]
    /\ PW.LP # <<>>
    /\ PW.B0 # IdentityMatrix

\* C5: an operation that fails with an error leaves B0, U, the LP list and
\* the eta stack of every engine as they were before the call.
C5_FailureLeavesStateUnchanged ==
    error # NoError => basis = prev

\* C6: invertB0 with a non-empty eta stack fails with EtasPresent and writes
\* nothing to the result buffer; with an empty eta stack it does not raise
\* that error.
C6_InvertRequiresNoEtas ==
    op = "invertB0" =>
        /\ W.etas # <<>> => error = CANT_INVERT_BASIS_BECAUSE_OF_ETAS /\ result = ZeroMatrix
        /\ W.etas = <<>> => error = NoError

C6_Witness ==
    /\ op = "invertB0"
    /\ W.etas # <<>>
    /\ W.LP # <<>>
    /\ error = CANT_INVERT_BASIS_BECAUSE_OF_ETAS

\* C7: with an empty eta stack and a factorized B0, invertB0 gives a result
\* with B0 * result = I: the identity when the LP list is empty, otherwise
\* U^-1 * (L_n P_n ... L_1 P_1), that is U * result = L_n P_n ... L_1 P_1.
C7_InvertGivesInverse ==
    (op = "invertB0" /\ W.etas = <<>> /\ Factorized(W)) =>
        /\ matrixMultiply(W.B0, result) = IdentityMatrix
        /\ W.LP = <<>> => result = IdentityMatrix
        /\ W.LP # <<>> => matrixMultiply(W.U, result) = ApplyLP(W.LP, IdentityMatrix)

C7_Witness ==
    /\ op = "invertB0" /\ error = NoError
    /\ W.etas = <<>>
    /\ Factorized(W)
    /\ \E i \in 1 .. Len(W.LP) : W.LP[i].isPair
    /\ \E p \in MIdx : result[p][2] # 1

\* C8: with factorization disabled pushEtaMatrix only appends the eta,
\* whatever the size of the stack; factorizationEnabled() is the value last
\* given to toggleFactorization, TRUE at first.
C8_DisabledPushOnlyAppends ==
    /\ (op = "pushEtaMatrix" /\ ~PW.factorizationEnabled) =>
           /\ error = NoError
           /\ W.etas = Appended
           /\ W.B0 = PW.B0 /\ W.LP = PW.LP /\ W.U = PW.U
    /\ op = "new" => factorizationEnabled(W)
    /\ op = "toggleFactorization" => factorizationEnabled(W) = arg.value
    /\ op \notin {"new", "toggleFactorization"} =>
           factorizationEnabled(W) = factorizationEnabled(PW)

C8_Witness ==
    /\ op = "pushEtaMatrix"
    /\ ~PW.factorizationEnabled
    /\ Len(PW.etas) > REFACTORIZATION_THRESHOLD
    /\ Len(W.etas) = Len(PW.etas) + 1

\* C9: a successful storeFactorization leaves the working engine without
\* etas and both engines with B0 equal to the working engine's implicit
\* basis from before the call; a restoreFactorization leaves the working
\* engine without etas, with the checkpoint's B0 and a factorization of it,
\* and the checkpoint as it was.
C9_CheckpointRoundTrip ==
    /\ (op = "storeFactorization" /\ error = NoError) =>
           /\ W.etas = <<>>
           /\ W.B0 = ImplicitBasis(PW)
           /\ basis[Checkpoint].B0 = W.B0
           /\ basis[Checkpoint].etas = <<>>
    /\ op = "restoreFactorization" =>
           /\ basis[Checkpoint] = prev[Checkpoint]
           /\ W.etas = <<>>
           /\ W.B0 = basis[Checkpoint].B0
           /\ error = NoError => W.LP # <<>> /\ FactorizationOf(W, W.B0)

C9_Witness ==
    /\ op = "restoreFactorization"
    /\ PW.etas # <<>>
    /\ PW.B0 # basis[Checkpoint].B0
    /\ basis[Checkpoint].B0 # IdentityMatrix
    /\ basis[Checkpoint].B0 \notin SetB0Inputs

\* C10: between public operations, an empty LP list with an empty eta stack
\* means B0 is the identity.
C10_EmptyListsMeanIdentity ==
    \A e \in Engines :
        (basis[e].LP = <<>> /\ basis[e].etas = <<>>) => basis[e].B0 = IdentityMatrix

=============================================================================
